---- MODULE Spec2Model ----
(***************************************************************************)
(* The weather UI of src/app.js (the React component App, lines 73-524):   *)
(* its fourteen state cells, the requests its handlers leave in flight,    *)
(* and one action per event handler or promise continuation.               *)
(*                                                                         *)
(* React runs a handler to its first await as one step and applies all of  *)
(* its setState calls together; the code after an await runs as a later    *)
(* step, when the response arrives.  A handler created by one render reads *)
(* the state of that render, so a value a continuation uses after an await *)
(* (the unit passed by the geolocation callback and by the city search) is *)
(* the value captured when the handler started, and is carried in the      *)
(* in-flight record.                                                       *)
(*                                                                         *)
(* Numbers are fixed-point integers, Scale units to one (1.5 is 15000).    *)
(* The heartbeat ping (lines 89-96) touches no state and is left out.      *)
(***************************************************************************)
EXTENDS Integers, Sequences, FiniteSets, TLC

VARIABLES
    status, error, coords, locationName, weather,      \* lines 74-78
    advice, adviceStatus, adviceError,                 \* lines 79-81
    unit,                                              \* line 82
    cityQuery, cityStatus, cityError,                  \* lines 83-85
    manualLat, manualLon,                              \* lines 86-87
    canGeolocate,                                      \* line 98
    forecastReqs,  \* forecast fetches awaiting their response (line 122)
    adviceReqs,    \* /api/suggest fetches awaiting their response (line 167)
    geocodeReqs,   \* geocoding fetches awaiting their response (line 256)
    geoLookups,    \* getCurrentPosition calls awaiting a callback (line 206)
    seq,           \* history: how many times fetchWeather has been called
    weatherOf,     \* history: the fetchWeather call whose response is stored
    adviceOf,      \* history: the fetchWeather call whose advice is stored
    events,        \* history: how many user events have been handled
    env,           \* relay: process.env after loadEnvFile (lines 564-566)
    exchanges,     \* relay: the POST /api/suggest requests received (line 701)
    input,         \* the argument a pure function is applied to
    output         \* the value it returned, Pending before the call

appVars == <<status, error, coords, locationName, weather, advice, adviceStatus,
             adviceError, unit, cityQuery, cityStatus, cityError, manualLat,
             manualLon, canGeolocate, forecastReqs, adviceReqs, geocodeReqs,
             geoLookups, seq, weatherOf, adviceOf, events>>
relayVars == <<env, exchanges>>
pureVars == <<input, output>>
vars == <<appVars, relayVars, pureVars>>

(***************************************************************************)
(* Bounds of the model.                                                    *)
(***************************************************************************)
MaxEvents == 2     \* user events (clicks, submits, edits) in one run
MaxRequests == 2   \* POST /api/suggest requests the relay receives in one run
MaxItems == 2      \* items in the output list of an upstream response
MaxLines == 2      \* lines of an advice text
MaxDegree == 360   \* degrees, either side of north, toCardinal is applied to
MaxTurns == 2      \* full turns, either way, added to a direction
MaxCode == 999     \* weather codes 0..MaxCode the summary lookup is applied to

(***************************************************************************)
(* JavaScript values.                                                      *)
(***************************************************************************)
Scale == 10000
Null == [null |-> TRUE]
NaN == [nan |-> TRUE]
Infinity == [inf |-> TRUE]
Undefined == [undefined |-> TRUE]
\* An optional string (a property that may be absent): <<>> or <<text>>.
Absent == <<>>
Some(text) == <<text>>
Truthy(opt) == opt # Absent /\ opt # Some("")
Num(n) == [num |-> n]
\* No pure function is being observed; its result is not there yet.
Idle == [fn |-> "none"]
Pending == [pending |-> TRUE]
IsNum(x) == DOMAIN x = {"num"}

Digits == "0123456789"
DigitStr(d) == SubSeq(Digits, d + 1, d + 1)
IsDigit(c) == \E d \in 0..9 : DigitStr(d) = c
DigitVal(c) == CHOOSE d \in 0..9 : DigitStr(d) = c
CharAt(s, i) == SubSeq(s, i, i)
IsSpace(c) == c \in {" ", "\t", "\n", "\r"}

RECURSIVE Pow10(_)
Pow10(k) == IF k = 0 THEN 1 ELSE 10 * Pow10(k - 1)

RECURSIVE NatStr(_)
NatStr(n) == IF n < 10 THEN DigitStr(n) ELSE NatStr(n \div 10) \o DigitStr(n % 10)

RECURSIVE ZeroPad(_, _)
ZeroPad(s, width) == IF Len(s) >= width THEN s ELSE ZeroPad("0" \o s, width)

\* String.prototype.trim
RECURSIVE TrimLeft(_)
TrimLeft(s) ==
    IF Len(s) > 0 /\ IsSpace(CharAt(s, 1)) THEN TrimLeft(SubSeq(s, 2, Len(s))) ELSE s

RECURSIVE TrimRight(_)
TrimRight(s) ==
    IF Len(s) > 0 /\ IsSpace(CharAt(s, Len(s)))
    THEN TrimRight(SubSeq(s, 1, Len(s) - 1)) ELSE s

Trim(s) == TrimRight(TrimLeft(s))

\* The digits of s from position i on, as a natural number; acc is the value
\* read so far.
RECURSIVE DigitsVal(_, _, _)
DigitsVal(s, i, acc) ==
    IF i > Len(s) THEN acc ELSE DigitsVal(s, i + 1, 10 * acc + DigitVal(CharAt(s, i)))

AllDigits(s) == \A i \in 1..Len(s) : IsDigit(CharAt(s, i))

DotAt(s) == IF \E i \in 1..Len(s) : CharAt(s, i) = "."
            THEN CHOOSE i \in 1..Len(s) :
                    /\ CharAt(s, i) = "."
                    /\ \A j \in 1..(i - 1) : CharAt(s, j) # "."
            ELSE 0

\* An unsigned decimal literal (digits, digits.digits, digits. or .digits) as a
\* fixed-point number; NaN for anything else.  Fraction digits beyond the
\* fourth are dropped.
UnsignedDecimal(s) ==
    LET dot == DotAt(s)
        ip == IF dot = 0 THEN s ELSE SubSeq(s, 1, dot - 1)
        fp == IF dot = 0 THEN "" ELSE SubSeq(s, dot + 1, Len(s))
        f4 == SubSeq(fp \o "0000", 1, 4)
    IN  IF Len(ip) + Len(fp) = 0 \/ ~AllDigits(ip) \/ ~AllDigits(fp)
        THEN NaN
        ELSE Num(DigitsVal(ip, 1, 0) * Scale + DigitsVal(f4, 1, 0))

\* Number(value) for a string value: surrounding white space is ignored, the
\* empty string is 0, a signed decimal literal is its value, Infinity is
\* infinite and any other text is NaN.  (Exponents and 0x.. literals are not
\* modelled; no input of the model uses them.)
StringToNumber(value) ==
    LET t == Trim(value)
        signed == Len(t) > 0 /\ CharAt(t, 1) \in {"+", "-"}
        body == IF signed THEN SubSeq(t, 2, Len(t)) ELSE t
        mag == UnsignedDecimal(body)
    IN  IF t = "" THEN Num(0)
        ELSE IF body = "Infinity" THEN Infinity
        ELSE IF ~IsNum(mag) THEN NaN
        ELSE IF signed /\ CharAt(t, 1) = "-" THEN Num(-mag.num) ELSE mag

\* Number.prototype.toFixed(digits), digits in 0..4: round to the nearest
\* multiple of 10^-digits, keep the sign of a negative number.
ToFixed(n, digits) ==
    LET step == Pow10(4 - digits)
        a == IF n < 0 THEN -n ELSE n
        q == (a + step \div 2) \div step
        ip == q \div Pow10(digits)
        fp == q % Pow10(digits)
    IN  (IF n < 0 THEN "-" ELSE "") \o NatStr(ip)
        \o (IF digits > 0 THEN "." \o ZeroPad(NatStr(fp), digits) ELSE "")

(***************************************************************************)
(* UnitFormatter: lines 54-71.                                             *)
(***************************************************************************)
\* directions[index] is undefined for an index outside 0..7; it is written
\* "undefined" here, the text a template renders it as.
directions == <<"N", "NE", "E", "SE", "S", "SW", "W", "NW">>

\* Math.round: the nearest integer, a half rounds up.
MathRound(numer, denom) == (2 * numer + denom) \div (2 * denom)

\* The % of JavaScript: the result has the sign of the dividend.
JsRem(a, b) == IF a >= 0 THEN a % b ELSE -((-a) % b)

toCardinal(degree) ==
    IF ~IsNum(degree) THEN "--"
    ELSE LET index == JsRem(MathRound(degree.num, 45 * Scale), 8)
         IN  IF index \in 0..7 THEN directions[index + 1] ELSE "undefined"

formatNumber(value, digits) ==
    IF value = Null \/ value = Undefined \/ value = NaN THEN "--"
    ELSE ToFixed(value.num, digits)

parseCoord(value) ==
    LET parsed == StringToNumber(value)
    IN  IF IsNum(parsed) THEN parsed ELSE Null

(***************************************************************************)
(* The outside world: what the user can type and what the providers, the   *)
(* relay and the browser's geolocation can answer.                         *)
(***************************************************************************)
LatTexts == {"", "abc", "37.7749"}
LonTexts == {"", "-122.4194"}
CityTexts == {"", " Paris "}

GeoPositions == {[latitude |-> Num(515074), longitude |-> Num(-1278)]}
PERMISSION_DENIED == 1
GeoErrorCodes == {1, 3}

\* What the forecast provider observes at any place: a weather code and a
\* temperature in degrees Celsius.
Observations == {[weather_code |-> 3, celsius |-> 215000]}

ProviderTemperature(token, celsius) ==
    IF token = "fahrenheit" THEN (celsius * 9) \div 5 + 32 * Scale ELSE celsius

\* The body the forecast provider sends for request r (spec section 6:
\* {current, current_units, timezone}); it carries current_units and timezone
\* whenever it carries current.
ForecastData(r, obs) ==
    [current |->
        [time |-> "2024-05-01T12:00",
         temperature_2m |-> Num(ProviderTemperature(r.temperature_unit, obs.celsius)),
         apparent_temperature |->
             Num(ProviderTemperature(r.temperature_unit, obs.celsius - 10000)),
         relative_humidity_2m |-> Num(55 * Scale),
         weather_code |-> obs.weather_code,
         wind_speed_10m |-> Num(IF r.wind_speed_unit = "mph" THEN 62000 ELSE 100000),
         wind_direction_10m |-> Num(270 * Scale)],
     current_units |->
        [temperature_2m |-> IF r.temperature_unit = "fahrenheit" THEN "°F" ELSE "°C",
         apparent_temperature |->
             IF r.temperature_unit = "fahrenheit" THEN "°F" ELSE "°C",
         relative_humidity_2m |-> "%",
         wind_speed_10m |-> IF r.wind_speed_unit = "mph" THEN "mp/h" ELSE "km/h"],
     timezone |-> "Europe/London"]

\* A fetch either rejects (kind "reject", with the error's message) or
\* resolves to a response (kind "response").
ForecastResponses(r) ==
    {[kind |-> "reject", message |-> m] : m \in {"Failed to fetch"}}
    \cup {[kind |-> "response", ok |-> FALSE, status |-> 500, json |-> Null]}
    \cup {[kind |-> "response", ok |-> TRUE, status |-> 200, json |-> [current |-> Null]]}
    \cup {[kind |-> "response", ok |-> TRUE, status |-> 200, json |-> ForecastData(r, obs)] :
            obs \in Observations}

\* A result without an admin1 field (written "", which Boolean rejects alike).
CityResults ==
    {[name |-> "Paris", admin1 |-> "", country |-> "France",
      latitude |-> Num(488534), longitude |-> Num(23488)]}

GeocodeResponses ==
    {[kind |-> "reject", message |-> "Failed to fetch"]}
    \cup {[kind |-> "response", ok |-> FALSE, status |-> 500, results |-> <<>>]}
    \cup {[kind |-> "response", ok |-> TRUE, status |-> 200, results |-> <<>>]}
    \cup {[kind |-> "response", ok |-> TRUE, status |-> 200, results |-> <<c>>] :
            c \in CityResults}

SuggestionBody == "{\"suggestion\":\"**Base Layer**: tee\"}"
EmptySuggestionBody == "{\"suggestion\":\"\"}"
ErrorBody == "{\"error\":\"No suggestion returned.\"}"
JsonType == "application/json; charset=utf-8"

AdviceResponses ==
    {[kind |-> "reject", message |-> "Failed to fetch"],
     [kind |-> "response", ok |-> TRUE, contentType |-> JsonType, rawText |-> SuggestionBody],
     [kind |-> "response", ok |-> TRUE, contentType |-> JsonType,
      rawText |-> EmptySuggestionBody],
     [kind |-> "response", ok |-> TRUE, contentType |-> JsonType, rawText |-> "null"],
     [kind |-> "response", ok |-> FALSE, contentType |-> JsonType, rawText |-> ErrorBody],
     [kind |-> "response", ok |-> FALSE, contentType |-> "text/html", rawText |-> ""]}

\* JSON.parse on the bodies above: the parsed object, null, or a SyntaxError.
JsonParse(rawText) ==
    CASE rawText = SuggestionBody ->
            [thrown |-> FALSE,
             value |-> [error |-> Absent, suggestion |-> Some("**Base Layer**: tee")]]
      [] rawText = EmptySuggestionBody ->
            [thrown |-> FALSE, value |-> [error |-> Absent, suggestion |-> Some("")]]
      [] rawText = ErrorBody ->
            [thrown |-> FALSE,
             value |-> [error |-> Some("No suggestion returned."), suggestion |-> Absent]]
      [] rawText = "null" -> [thrown |-> FALSE, value |-> Null]
      [] OTHER -> [thrown |-> TRUE, value |-> Null]

\* String.prototype.includes
RECURSIVE IncludesFrom(_, _, _)
IncludesFrom(s, part, i) ==
    IF i + Len(part) - 1 > Len(s) THEN FALSE
    ELSE IF SubSeq(s, i, i + Len(part) - 1) = part THEN TRUE
    ELSE IncludesFrom(s, part, i + 1)

Includes(s, part) == IncludesFrom(s, part, 1)

\* a || b on strings
Or(a, b) == IF a # "" THEN a ELSE b

(***************************************************************************)
(* WEATHER_CODE_MAP: lines 3-32.                                           *)
(***************************************************************************)
WEATHER_CODE_MAP ==
    [code \in {0, 1, 2, 3, 45, 48, 51, 53, 55, 56, 57, 61, 63, 65, 66, 67, 71, 73,
               75, 77, 80, 81, 82, 85, 86, 95, 96, 99} |->
        CASE code = 0 -> "Clear sky"
          [] code = 1 -> "Mainly clear"
          [] code = 2 -> "Partly cloudy"
          [] code = 3 -> "Overcast"
          [] code = 45 -> "Fog"
          [] code = 48 -> "Depositing rime fog"
          [] code = 51 -> "Light drizzle"
          [] code = 53 -> "Moderate drizzle"
          [] code = 55 -> "Dense drizzle"
          [] code = 56 -> "Light freezing drizzle"
          [] code = 57 -> "Dense freezing drizzle"
          [] code = 61 -> "Slight rain"
          [] code = 63 -> "Moderate rain"
          [] code = 65 -> "Heavy rain"
          [] code = 66 -> "Light freezing rain"
          [] code = 67 -> "Heavy freezing rain"
          [] code = 71 -> "Slight snowfall"
          [] code = 73 -> "Moderate snowfall"
          [] code = 75 -> "Heavy snowfall"
          [] code = 77 -> "Snow grains"
          [] code = 80 -> "Slight rain showers"
          [] code = 81 -> "Moderate rain showers"
          [] code = 82 -> "Violent rain showers"
          [] code = 85 -> "Slight snow showers"
          [] code = 86 -> "Heavy snow showers"
          [] code = 95 -> "Thunderstorm"
          [] code = 96 -> "Thunderstorm with light hail"
          [] code = 99 -> "Thunderstorm with heavy hail"]

\* The lookup without its fallback.
summaryFor_NoFallback(code) ==
    IF code \in DOMAIN WEATHER_CODE_MAP THEN WEATHER_CODE_MAP[code] ELSE "undefined"

\* WEATHER_CODE_MAP[code] || "Variable conditions" (lines 131, 291)
summaryFor(code) ==
    IF code \in DOMAIN WEATHER_CODE_MAP THEN WEATHER_CODE_MAP[code]
    ELSE "Variable conditions"

(***************************************************************************)
(* The component's state after construction: lines 74-87, 98.              *)
(***************************************************************************)
AppInit ==
    /\ status = "idle"
    /\ error = ""
    /\ coords = Null
    /\ locationName = ""
    /\ weather = Null
    /\ advice = ""
    /\ adviceStatus = "idle"
    /\ adviceError = ""
    /\ unit = "fahrenheit"
    /\ cityQuery = ""
    /\ cityStatus = "idle"
    /\ cityError = ""
    /\ manualLat = ""
    /\ manualLon = ""
    /\ canGeolocate \in BOOLEAN
    /\ forecastReqs = {}
    /\ adviceReqs = {}
    /\ geocodeReqs = {}
    /\ geoLookups = {}
    /\ seq = 0
    /\ weatherOf = 0
    /\ adviceOf = 0
    /\ events = 0

\* The page alone: the relay has its key and has received nothing, no pure
\* function is under observation.
Init ==
    /\ AppInit
    /\ env = [OPEN_AI_KEY |-> Some("sk-test"), OPENAI_API_KEY |-> Absent]
    /\ exchanges = <<>>
    /\ input = Idle
    /\ output = Pending

(***************************************************************************)
(* fetchWeather, up to its await: lines 100-122.                           *)
(***************************************************************************)
ForecastRequest(latitude, longitude, unitOverride, locationLabel) ==
    [id |-> seq + 1,
     latitude |-> latitude,
     longitude |-> longitude,
     temperature_unit |-> IF unitOverride = "fahrenheit" THEN "fahrenheit" ELSE "celsius",
     wind_speed_unit |-> IF unitOverride = "fahrenheit" THEN "mph" ELSE "kmh",
     label |-> locationLabel]

\* fetchWeather without its setAdvice("") (line 103).
fetchWeather_KeepsAdvice(latitude, longitude, unitOverride, locationLabel) ==
    /\ status' = "loading"
    /\ error' = ""
    /\ adviceError' = ""
    /\ adviceStatus' = "idle"
    /\ cityError' = ""
    /\ forecastReqs' = forecastReqs
            \cup {ForecastRequest(latitude, longitude, unitOverride, locationLabel)}
    /\ seq' = seq + 1
    /\ UNCHANGED <<advice, adviceOf>>

fetchWeather(latitude, longitude, unitOverride, locationLabel) ==
    /\ status' = "loading"
    /\ error' = ""
    /\ advice' = ""
    /\ adviceError' = ""
    /\ adviceStatus' = "idle"
    /\ cityError' = ""
    /\ forecastReqs' = forecastReqs
            \cup {ForecastRequest(latitude, longitude, unitOverride, locationLabel)}
    /\ seq' = seq + 1
    /\ adviceOf' = 0

(***************************************************************************)
(* fetchAdvice, up to its await: lines 163-171.                            *)
(***************************************************************************)
fetchAdvice(id, weatherPayload) ==
    /\ adviceStatus' = "loading"
    /\ adviceError' = ""
    /\ adviceReqs' = adviceReqs \cup {[id |-> id, weather |-> weatherPayload]}

(***************************************************************************)
(* fetchWeather after its await: lines 122-160.                            *)
(***************************************************************************)
ForecastFailure(resp) ==
    IF resp.kind = "reject" THEN Or(resp.message, "Unable to load weather.")
    ELSE IF ~resp.ok THEN "Weather service error (" \o NatStr(resp.status) \o ")"
    ELSE IF resp.json.current = Null THEN "Weather data unavailable."
    ELSE ""

resolvedLocation(r) ==
    Or(r.label, formatNumber(r.latitude, 4) \o ", " \o formatNumber(r.longitude, 4))

Snapshot(data) ==
    [current |-> data.current, units |-> data.current_units, timezone |-> data.timezone]

weatherPayload(r, data) ==
    [summary |-> summaryFor(data.current.weather_code),
     temperature |-> formatNumber(data.current.temperature_2m, 1),
     feelsLike |-> formatNumber(data.current.apparent_temperature, 1),
     humidity |-> formatNumber(data.current.relative_humidity_2m, 0),
     windSpeed |-> formatNumber(data.current.wind_speed_10m, 1),
     windDirection |-> toCardinal(data.current.wind_direction_10m),
     temperatureUnit |-> data.current_units.temperature_2m,
     windUnit |-> data.current_units.wind_speed_10m,
     time |-> data.current.time,
     timezone |-> data.timezone,
     location |-> resolvedLocation(r)]

ForecastFailed(r, resp) ==
    /\ status' = "error"
    /\ error' = ForecastFailure(resp)
    /\ UNCHANGED <<coords, locationName, weather, advice, adviceStatus, adviceError,
                   adviceReqs, weatherOf, adviceOf>>

\* The success path without its call of fetchAdvice (line 156).
ForecastSucceeded_NoAdvice(r, resp) ==
    /\ coords' = [lat |-> r.latitude, lon |-> r.longitude]
    /\ locationName' = resolvedLocation(r)
    /\ weather' = Snapshot(resp.json)
    /\ status' = "ready"
    /\ weatherOf' = r.id
    /\ UNCHANGED <<error, advice, adviceOf, adviceStatus, adviceError, adviceReqs>>

ForecastSucceeded(r, resp) ==
    /\ coords' = [lat |-> r.latitude, lon |-> r.longitude]
    /\ locationName' = resolvedLocation(r)
    /\ weather' = Snapshot(resp.json)
    /\ status' = "ready"
    /\ weatherOf' = r.id
    /\ fetchAdvice(r.id, weatherPayload(r, resp.json))
    /\ UNCHANGED <<error, advice, adviceOf>>

ForecastResponse(r, resp) ==
    /\ forecastReqs' = forecastReqs \ {r}
    /\ IF ForecastFailure(resp) # ""
       THEN ForecastFailed(r, resp)
       ELSE ForecastSucceeded(r, resp)
    /\ UNCHANGED <<unit, cityQuery, cityStatus, cityError, manualLat, manualLon,
                   canGeolocate, geocodeReqs, geoLookups, seq>>

(***************************************************************************)
(* fetchAdvice after its await: lines 172-194.                             *)
(***************************************************************************)
\* data of lines 174-181
AdviceData(resp) ==
    IF Includes(resp.contentType, "application/json") /\ resp.rawText # ""
          /\ ~JsonParse(resp.rawText).thrown
    THEN JsonParse(resp.rawText).value
    ELSE [error |-> Absent, suggestion |-> Absent]

\* The message of the error the try block throws, "" if it throws none.
\* Reading a property of null is a TypeError.  (The back quotes of the
\* fallback message of line 186 are written as single quotes.)
AdviceFailure(resp) ==
    IF resp.kind = "reject" THEN Or(resp.message, "Unable to generate suggestions.")
    ELSE IF AdviceData(resp) = Null
    THEN "Cannot read properties of null"
    ELSE IF ~resp.ok
    THEN IF Truthy(AdviceData(resp).error) THEN AdviceData(resp).error[1]
         ELSE Or(resp.rawText,
                 "Unable to generate suggestions. Make sure 'node server.js' is running.")
    ELSE ""

\* data.suggestion || rawText || ""
AdviceText(resp) ==
    IF Truthy(AdviceData(resp).suggestion) THEN AdviceData(resp).suggestion[1]
    ELSE Or(resp.rawText, "")

\* The catch block also clearing the advice text.
AdviceFailed_ClearsAdvice(a, resp) ==
    /\ adviceStatus' = "error"
    /\ adviceError' = AdviceFailure(resp)
    /\ advice' = ""
    /\ adviceOf' = 0

AdviceFailed(a, resp) ==
    /\ adviceStatus' = "error"
    /\ adviceError' = AdviceFailure(resp)
    /\ UNCHANGED <<advice, adviceOf>>

AdviceSucceeded(a, resp) ==
    /\ advice' = AdviceText(resp)
    /\ adviceStatus' = "ready"
    /\ adviceOf' = a.id
    /\ UNCHANGED adviceError

AdviceResponse(a, resp) ==
    /\ adviceReqs' = adviceReqs \ {a}
    /\ IF AdviceFailure(resp) # "" THEN AdviceFailed(a, resp) ELSE AdviceSucceeded(a, resp)
    /\ UNCHANGED <<status, error, coords, locationName, weather, unit, cityQuery,
                   cityStatus, cityError, manualLat, manualLon, canGeolocate,
                   forecastReqs, geocodeReqs, geoLookups, seq, weatherOf>>

(***************************************************************************)
(* handleLocate and the geolocation callbacks: lines 197-225, 397.         *)
(***************************************************************************)
\* handleLocate with the button never disabled (line 397 without disabled=).
handleLocate_NeverDisabled ==
    /\ IF ~canGeolocate
       THEN /\ status' = "error"
            /\ error' = "Geolocation is not supported in this browser."
            /\ UNCHANGED geoLookups
       ELSE /\ status' = "locating"
            /\ error' = ""
            /\ geoLookups' = geoLookups \cup {[id |-> events + 1, unit |-> unit]}
    /\ UNCHANGED <<coords, locationName, weather, advice, adviceStatus, adviceError,
                   unit, cityQuery, cityStatus, cityError, manualLat, manualLon,
                   canGeolocate, forecastReqs, adviceReqs, geocodeReqs, seq,
                   weatherOf, adviceOf>>

handleLocate ==
    /\ status # "locating"
    /\ IF ~canGeolocate
       THEN /\ status' = "error"
            /\ error' = "Geolocation is not supported in this browser."
            /\ UNCHANGED geoLookups
       ELSE /\ status' = "locating"
            /\ error' = ""
            /\ geoLookups' = geoLookups \cup {[id |-> events + 1, unit |-> unit]}
    /\ UNCHANGED <<coords, locationName, weather, advice, adviceStatus, adviceError,
                   unit, cityQuery, cityStatus, cityError, manualLat, manualLon,
                   canGeolocate, forecastReqs, adviceReqs, geocodeReqs, seq,
                   weatherOf, adviceOf>>

GeoSuccess(g, position) ==
    /\ geoLookups' = geoLookups \ {g}
    /\ fetchWeather(position.latitude, position.longitude, g.unit, "Current location")
    /\ UNCHANGED <<coords, locationName, weather, unit, cityQuery, cityStatus,
                   manualLat, manualLon, canGeolocate, adviceReqs, geocodeReqs,
                   weatherOf>>

\* The error callback without its setStatus("error") (line 212).
GeoError_KeepsStatus(g, code) ==
    /\ geoLookups' = geoLookups \ {g}
    /\ error' = IF code = PERMISSION_DENIED
                THEN "Location access was blocked. Try the manual coordinates below."
                ELSE "Unable to retrieve your location. Try again or enter coordinates."
    /\ UNCHANGED <<status, coords, locationName, weather, advice, adviceStatus,
                   adviceError, unit, cityQuery, cityStatus, cityError, manualLat,
                   manualLon, canGeolocate, forecastReqs, adviceReqs, geocodeReqs, seq,
                   weatherOf, adviceOf>>

GeoError(g, code) ==
    /\ geoLookups' = geoLookups \ {g}
    /\ status' = "error"
    /\ error' = IF code = PERMISSION_DENIED
                THEN "Location access was blocked. Try the manual coordinates below."
                ELSE "Unable to retrieve your location. Try again or enter coordinates."
    /\ UNCHANGED <<coords, locationName, weather, advice, adviceStatus, adviceError,
                   unit, cityQuery, cityStatus, cityError, manualLat, manualLon,
                   canGeolocate, forecastReqs, adviceReqs, geocodeReqs, seq,
                   weatherOf, adviceOf>>

(***************************************************************************)
(* The manual form: lines 227-238, 499, 510.                               *)
(***************************************************************************)
ManualLatChange(value) ==
    /\ value # manualLat
    /\ manualLat' = value
    /\ UNCHANGED <<status, error, coords, locationName, weather, advice, adviceStatus,
                   adviceError, unit, cityQuery, cityStatus, cityError, manualLon,
                   canGeolocate, forecastReqs, adviceReqs, geocodeReqs, geoLookups,
                   seq, weatherOf, adviceOf>>

ManualLonChange(value) ==
    /\ value # manualLon
    /\ manualLon' = value
    /\ UNCHANGED <<status, error, coords, locationName, weather, advice, adviceStatus,
                   adviceError, unit, cityQuery, cityStatus, cityError, manualLat,
                   canGeolocate, forecastReqs, adviceReqs, geocodeReqs, geoLookups,
                   seq, weatherOf, adviceOf>>

handleManualSubmit ==
    LET latValue == parseCoord(manualLat)
        lonValue == parseCoord(manualLon)
    IN  /\ IF latValue = Null \/ lonValue = Null
           THEN /\ status' = "error"
                /\ error' = "Enter a valid latitude and longitude."
                /\ UNCHANGED <<advice, adviceStatus, adviceError, cityError,
                               forecastReqs, seq, adviceOf>>
           ELSE fetchWeather(latValue, lonValue, unit, "")
        /\ UNCHANGED <<coords, locationName, weather, unit, cityQuery, cityStatus,
                       manualLat, manualLon, canGeolocate, adviceReqs, geocodeReqs,
                       geoLookups, weatherOf>>

(***************************************************************************)
(* The city form: lines 240-273, 468-479.                                  *)
(***************************************************************************)
CityChange(value) ==
    /\ value # cityQuery
    /\ cityQuery' = value
    /\ cityStatus' = "idle"
    /\ cityError' = ""
    /\ UNCHANGED <<status, error, coords, locationName, weather, advice, adviceStatus,
                   adviceError, unit, manualLat, manualLon, canGeolocate, forecastReqs,
                   adviceReqs, geocodeReqs, geoLookups, seq, weatherOf, adviceOf>>

handleCitySubmit ==
    LET query == Trim(cityQuery)
    IN  /\ cityStatus # "loading"
        /\ IF query = ""
           THEN /\ cityStatus' = "error"
                /\ cityError' = "Enter a city name."
                /\ UNCHANGED geocodeReqs
           ELSE /\ cityStatus' = "loading"
                /\ cityError' = ""
                /\ geocodeReqs' = geocodeReqs
                        \cup {[id |-> events + 1, name |-> query, unit |-> unit]}
        /\ UNCHANGED <<status, error, coords, locationName, weather, advice,
                       adviceStatus, adviceError, unit, cityQuery, manualLat,
                       manualLon, canGeolocate, forecastReqs, adviceReqs, geoLookups,
                       seq, weatherOf, adviceOf>>

GeocodeFailure(resp) ==
    IF resp.kind = "reject" THEN Or(resp.message, "Unable to find that city.")
    ELSE IF ~resp.ok THEN "City lookup error (" \o NatStr(resp.status) \o ")"
    ELSE IF Len(resp.results) = 0 THEN "No matching city found."
    ELSE ""

\* [name, admin1, country].filter(Boolean).join(", ")
RECURSIVE JoinTruthy(_)
JoinTruthy(parts) ==
    IF parts = <<>> THEN ""
    ELSE LET rest == JoinTruthy(Tail(parts))
         IN  IF Head(parts) = "" THEN rest
             ELSE IF rest = "" THEN Head(parts)
             ELSE Head(parts) \o ", " \o rest

CityLabel(result) == JoinTruthy(<<result.name, result.admin1, result.country>>)

\* The catch block reporting through the weather flow's status and error.
GeocodeFailed_AsWeatherError(c, resp) ==
    /\ cityStatus' = "error"
    /\ cityError' = GeocodeFailure(resp)
    /\ status' = "error"
    /\ error' = GeocodeFailure(resp)
    /\ UNCHANGED <<advice, adviceStatus, adviceError, cityQuery, forecastReqs, seq,
                   adviceOf>>

\* catch: lines 269-272.
GeocodeFailed(c, resp) ==
    /\ cityStatus' = "error"
    /\ cityError' = GeocodeFailure(resp)
    /\ UNCHANGED <<status, error, advice, adviceStatus, adviceError, cityQuery,
                   forecastReqs, seq, adviceOf>>

GeocodeResponse(c, resp) ==
    /\ geocodeReqs' = geocodeReqs \ {c}
    /\ IF GeocodeFailure(resp) # ""
       THEN GeocodeFailed(c, resp)
       ELSE LET result == resp.results[1]
            IN  /\ cityQuery' = CityLabel(result)
                /\ cityStatus' = "ready"
                /\ fetchWeather(result.latitude, result.longitude, c.unit,
                                CityLabel(result))
    /\ UNCHANGED <<coords, locationName, weather, unit, manualLat, manualLon,
                   canGeolocate, adviceReqs, geoLookups, weatherOf>>

(***************************************************************************)
(* handleUnitToggle: lines 275-281.                                        *)
(***************************************************************************)
\* handleUnitToggle passing the unit of the current render instead of next.
handleUnitToggle_OldUnit ==
    LET next == IF unit = "fahrenheit" THEN "celsius" ELSE "fahrenheit"
    IN  /\ unit' = next
        /\ IF coords # Null
           THEN fetchWeather(coords.lat, coords.lon, unit, locationName)
           ELSE UNCHANGED <<status, error, advice, adviceStatus, adviceError,
                            cityError, forecastReqs, seq, adviceOf>>
        /\ UNCHANGED <<coords, locationName, weather, cityQuery, cityStatus, manualLat,
                       manualLon, canGeolocate, adviceReqs, geocodeReqs, geoLookups,
                       weatherOf>>

handleUnitToggle ==
    LET next == IF unit = "fahrenheit" THEN "celsius" ELSE "fahrenheit"
    IN  /\ unit' = next
        /\ IF coords # Null
           THEN fetchWeather(coords.lat, coords.lon, next, locationName)
           ELSE UNCHANGED <<status, error, advice, adviceStatus, adviceError,
                            cityError, forecastReqs, seq, adviceOf>>
        /\ UNCHANGED <<coords, locationName, weather, cityQuery, cityStatus, manualLat,
                       manualLon, canGeolocate, adviceReqs, geocodeReqs, geoLookups,
                       weatherOf>>

(***************************************************************************)
(* The state machine.                                                      *)
(***************************************************************************)
\* A user event is one more event of the run; a completion is none.
User(handler) ==
    handler /\ events < MaxEvents /\ events' = events + 1
        /\ UNCHANGED <<relayVars, pureVars>>
Done(continuation) == continuation /\ UNCHANGED <<events, relayVars, pureVars>>

Next ==
    \/ User(handleLocate)
    \/ User(handleManualSubmit)
    \/ User(handleCitySubmit)
    \/ User(handleUnitToggle)
    \/ \E value \in LatTexts : User(ManualLatChange(value))
    \/ \E value \in LonTexts : User(ManualLonChange(value))
    \/ \E value \in CityTexts : User(CityChange(value))
    \/ \E r \in forecastReqs : \E resp \in ForecastResponses(r) :
            Done(ForecastResponse(r, resp))
    \/ \E a \in adviceReqs : \E resp \in AdviceResponses : Done(AdviceResponse(a, resp))
    \/ \E c \in geocodeReqs : \E resp \in GeocodeResponses :
            Done(GeocodeResponse(c, resp))
    \/ \E g \in geoLookups : \E position \in GeoPositions : Done(GeoSuccess(g, position))
    \/ \E g \in geoLookups : \E code \in GeoErrorCodes : Done(GeoError(g, code))

Spec == Init /\ [][Next]_vars

\* Every request and every geolocation lookup in flight is answered in the end.
ForecastCompletes ==
    \E r \in forecastReqs : \E resp \in ForecastResponses(r) : Done(ForecastResponse(r, resp))
AdviceCompletes ==
    \E a \in adviceReqs : \E resp \in AdviceResponses : Done(AdviceResponse(a, resp))
GeocodeCompletes ==
    \E c \in geocodeReqs : \E resp \in GeocodeResponses : Done(GeocodeResponse(c, resp))
GeoCompletes ==
    \/ \E g \in geoLookups : \E position \in GeoPositions : Done(GeoSuccess(g, position))
    \/ \E g \in geoLookups : \E code \in GeoErrorCodes : Done(GeoError(g, code))

FairSpec ==
    /\ Spec
    /\ WF_vars(ForecastCompletes)
    /\ WF_vars(AdviceCompletes)
    /\ WF_vars(GeocodeCompletes)
    /\ WF_vars(GeoCompletes)

(***************************************************************************)
(* The relay: the Node server of lines 528-736, its POST /api/suggest      *)
(* handler (lines 701-729).  An exchange is one such request: the body     *)
(* text it carries, how far its handler has come (reading the body,        *)
(* calling the upstream provider, done), the responses written to it, the  *)
(* requests sent upstream for it and the upstream's answer to them.  The   *)
(* handler runs from one await to the next as one step.  Requests to other *)
(* paths (static files, OPTIONS) share no state with it and are left out.  *)
(***************************************************************************)
\* process.env: a .env line "OPEN_AI_KEY=" leaves the empty string (557-559).
Environments ==
    {[OPEN_AI_KEY |-> Some("sk-test"), OPENAI_API_KEY |-> Absent],
     [OPEN_AI_KEY |-> Some(""), OPENAI_API_KEY |-> Some("sk-other")],
     [OPEN_AI_KEY |-> Some(""), OPENAI_API_KEY |-> Absent],
     [OPEN_AI_KEY |-> Absent, OPENAI_API_KEY |-> Absent]}

getApiKey == IF Truthy(env.OPEN_AI_KEY) THEN env.OPEN_AI_KEY ELSE env.OPENAI_API_KEY

\* The weather payload the page posts (lines 143-155), as JSON text and parsed.
WeatherDetails ==
    [summary |-> "Overcast", temperature |-> "70.7", feelsLike |-> "68.9",
     humidity |-> "55", windSpeed |-> "6.2", windDirection |-> "W",
     temperatureUnit |-> "°F", windUnit |-> "mp/h", location |-> "Paris, France",
     time |-> "2024-05-01T12:00", timezone |-> "Europe/Paris"]
WeatherBody == "{\"weather\":{\"summary\":\"Overcast\", ...}}"

RequestBodies == {"", "{\"weather\":", "null", "{}", "{\"city\":\"Paris\"}", WeatherBody}

\* JSON.parse of a request body (line 582): the value, or the SyntaxError.
ParseRequest(data) ==
    CASE data = WeatherBody ->
            [thrown |-> FALSE, message |-> "", value |-> [weather |-> <<WeatherDetails>>]]
      [] data \in {"{}", "{\"city\":\"Paris\"}"} ->
            [thrown |-> FALSE, message |-> "", value |-> [weather |-> Absent]]
      [] data = "null" -> [thrown |-> FALSE, message |-> "", value |-> Null]
      [] OTHER -> [thrown |-> TRUE, message |-> "Unexpected end of JSON input",
                   value |-> Null]

\* What the promise of parseJsonBody settles to when the request ends.
parseJsonBody(data) ==
    IF data = ""
    THEN [thrown |-> FALSE, message |-> "", value |-> [weather |-> Absent]]
    ELSE ParseRequest(data)

buildPrompt(details) ==
    "Weather details:"
    \o "\nSummary: " \o details.summary
    \o "\nTemperature: " \o details.temperature \o " " \o details.temperatureUnit
    \o "\nFeels like: " \o details.feelsLike \o " " \o details.temperatureUnit
    \o "\nHumidity: " \o details.humidity \o "%"
    \o "\nWind: " \o details.windSpeed \o " " \o details.windUnit \o " "
    \o details.windDirection
    \o "\nLocation: " \o details.location
    \o "\nLocal time: " \o details.time \o " (" \o details.timezone \o ")"

(***************************************************************************)
(* extractOutputText: lines 632-654.  An envelope is null or a record      *)
(* [output_text, output]: output_text an optional string, output <<>> when *)
(* it is not an array and <<items>> when it is.  An item is null or        *)
(* [type, content, text] with content <<>> or <<parts>> and text optional; *)
(* a part is null or [type, text].                                         *)
(***************************************************************************)
PartText(part) ==
    IF part = Null THEN ""
    ELSE IF part.type \in {"output_text", "text"}
    THEN (IF part.text = Absent THEN "" ELSE part.text[1])
    ELSE ""

RECURSIVE ContentText(_)
ContentText(content) ==
    IF content = <<>> THEN "" ELSE PartText(Head(content)) \o ContentText(Tail(content))

\* An item handling only the message items, as the item loop of line 641.
ItemText_MessagesOnly(item) ==
    IF item = Null THEN ""
    ELSE IF item.type = "message" /\ item.content # Absent
    THEN ContentText(item.content[1])
    ELSE ""

ItemText(item) ==
    IF item = Null THEN ""
    ELSE (IF item.type = "message" /\ item.content # Absent
          THEN ContentText(item.content[1]) ELSE "")
         \o (IF item.type = "output_text" /\ Truthy(item.text)
             THEN item.text[1] ELSE "")

RECURSIVE OutputText(_)
OutputText(items) ==
    IF items = <<>> THEN "" ELSE ItemText(Head(items)) \o OutputText(Tail(items))

extractOutputText(response) ==
    IF response = Null THEN ""
    ELSE IF response.output_text # Absent THEN response.output_text[1]
    ELSE IF response.output = Absent THEN ""
    ELSE Trim(OutputText(response.output[1]))

\* Upstream response bodies, as JSON text and parsed (line 619).
Part(type, text) == [type |-> type, text |-> text]
Message(parts) == [type |-> "message", content |-> <<parts>>, text |-> Absent]
FlatReply == "{\"output_text\":\"**Base Layer**: tee\"}"
MessageReply ==
    "{\"output\":[{\"type\":\"message\",\"content\":[{\"type\":\"output_text\",\"text\":\" **Base Layer**: tee\\n\"}]}]}"
BlankReply ==
    "{\"output\":[{\"type\":\"message\",\"content\":[{\"type\":\"output_text\",\"text\":\" \"}]}]}"
EmptyFlatReply == "{\"output_text\":\"\"}"
RateLimitReply == "{\"error\":{\"message\":\"Rate limit reached\"}}"

ParseUpstream(data) ==
    CASE data = FlatReply ->
            [thrown |-> FALSE, message |-> "",
             value |-> [output_text |-> Some("**Base Layer**: tee"), output |-> Absent]]
      [] data = MessageReply ->
            [thrown |-> FALSE, message |-> "",
             value |-> [output_text |-> Absent,
                        output |-> << <<Message(<<Part("output_text",
                                        Some(" **Base Layer**: tee\n"))>>)>> >>]]
      [] data = BlankReply ->
            [thrown |-> FALSE, message |-> "",
             value |-> [output_text |-> Absent,
                        output |-> << <<Message(<<Part("output_text", Some(" "))>>)>> >>]]
      [] data = EmptyFlatReply ->
            [thrown |-> FALSE, message |-> "",
             value |-> [output_text |-> Some(""), output |-> Absent]]
      [] data = "null" -> [thrown |-> FALSE, message |-> "", value |-> Null]
      [] OTHER -> [thrown |-> TRUE, message |-> "Unexpected end of JSON input",
                   value |-> Null]

\* How the upstream request ends: with a response read to its end (line 613)
\* or with an error event of the request (line 627).
UpstreamReplies ==
    {[kind |-> "end", statusCode |-> 200, data |-> d] :
        d \in {FlatReply, MessageReply, BlankReply, EmptyFlatReply, "null", ""}}
    \cup {[kind |-> "end", statusCode |-> 429, data |-> RateLimitReply]}
    \cup {[kind |-> "error", message |-> m] : m \in {"socket hang up", ""}}

NoReply == [kind |-> "none"]

\* respondJson, followed by the return every call site has: the exchange x
\* with the response written and its handler finished.
respondJson(x, statusCode, payload) ==
    [x EXCEPT !.responses = Append(@, [status |-> statusCode,
                                       contentType |-> JsonType,
                                       body |-> payload]),
              !.phase = "done"]

\* The catch block ending the request without writing a response.
Caught_NoResponse(x, message) == [x EXCEPT !.phase = "done"]

\* catch (err): lines 725-728.
Caught(x, message) ==
    respondJson(x, 500, [error |-> Some(Or(message, "Server error.")),
                         suggestion |-> Absent])

UpstreamRequest(apiKey, prompt) ==
    [authorization |-> "Bearer " \o apiKey, model |-> "gpt-4o-mini", input |-> prompt]

\* callOpenAI sending its request whether or not a key is configured.
callOpenAI_NoKeyCheck(x, prompt) ==
    [x EXCEPT !.sent = Append(@, UpstreamRequest("undefined", prompt)),
              !.phase = "calling"]

\* callOpenAI up to request.end(): lines 589-629, and the await of line 712.
callOpenAI(x, prompt) ==
    IF ~Truthy(getApiKey)
    THEN Caught(x, "OPEN_AI_KEY is missing in .env")
    ELSE [x EXCEPT !.sent = Append(@, UpstreamRequest(getApiKey[1], prompt)),
                   !.phase = "calling"]

\* A request arrives and its handler starts reading the body: lines 701-704.
Receive(data) ==
    /\ Len(exchanges) < MaxRequests
    /\ exchanges' = Append(exchanges, [data |-> data, phase |-> "reading",
                                       responses |-> <<>>, sent |-> <<>>,
                                       reply |-> NoReply])
    /\ UNCHANGED <<env, appVars, pureVars>>

\* The handler calling the provider before it looks for the weather.
Handle_CallsFirst(x) ==
    LET parsed == parseJsonBody(x.data)
    IN  IF parsed.thrown THEN Caught(x, parsed.message)
        ELSE IF ~Truthy(getApiKey) THEN Caught(x, "OPEN_AI_KEY is missing in .env")
        ELSE IF parsed.value = Null \/ parsed.value.weather = Absent
        THEN respondJson(x, 400, [error |-> Some("Missing weather details."),
                                  suggestion |-> Absent])
        ELSE callOpenAI(x, buildPrompt(parsed.value.weather[1]))

\* The handler once the body is read: lines 704-712.
Handle(x) ==
    LET parsed == parseJsonBody(x.data)
    IN  IF parsed.thrown THEN Caught(x, parsed.message)
        ELSE IF parsed.value = Null \/ parsed.value.weather = Absent
        THEN respondJson(x, 400, [error |-> Some("Missing weather details."),
                                  suggestion |-> Absent])
        ELSE callOpenAI(x, buildPrompt(parsed.value.weather[1]))

\* The body has been read to its end (line 579) and the handler resumes.
BodyEnd(i) ==
    /\ exchanges[i].phase = "reading"
    /\ exchanges' = [exchanges EXCEPT ![i] = Handle(@)]
    /\ UNCHANGED <<env, appVars, pureVars>>

\* The message callOpenAI rejects with for this reply, <<>> if it resolves.
UpstreamRejection(reply) ==
    IF reply.kind = "error" THEN Some(reply.message)
    ELSE IF reply.statusCode >= 400
    THEN Some("OpenAI error (" \o NatStr(reply.statusCode) \o "): " \o reply.data)
    ELSE IF ParseUpstream(reply.data).thrown THEN Some(ParseUpstream(reply.data).message)
    ELSE Absent

\* The handler answering 200 with whatever was extracted.
Answer_AllowsEmpty(x, response) ==
    respondJson(x, 200, [error |-> Absent,
                         suggestion |-> Some(extractOutputText(response))])

\* Lines 718-724.
Answer(x, response) ==
    LET suggestion == extractOutputText(response)
    IN  IF suggestion = ""
        THEN respondJson(x, 500, [error |-> Some("No suggestion returned."),
                                  suggestion |-> Absent])
        ELSE respondJson(x, 200, [error |-> Absent, suggestion |-> Some(suggestion)])

\* The upstream request ends and the handler resumes: lines 613-627, 718-728.
\* The reply is kept with the exchange as history.
UpstreamDone(i, reply) ==
    /\ exchanges[i].phase = "calling"
    /\ LET x == [exchanges[i] EXCEPT !.reply = reply]
           rejection == UpstreamRejection(reply)
       IN  exchanges' = [exchanges EXCEPT ![i] =
                            IF rejection # Absent
                            THEN Caught(x, rejection[1])
                            ELSE Answer(x, ParseUpstream(reply.data).value)]
    /\ UNCHANGED <<env, appVars, pureVars>>

RelayInit ==
    /\ AppInit
    /\ env \in Environments
    /\ exchanges = <<>>
    /\ input = Idle
    /\ output = Pending

RelayNext ==
    \/ \E data \in RequestBodies : Receive(data)
    \/ \E i \in DOMAIN exchanges : BodyEnd(i)
    \/ \E i \in DOMAIN exchanges : \E reply \in UpstreamReplies : UpstreamDone(i, reply)

RelaySpec == RelayInit /\ [][RelayNext]_vars

\* A body being received is received to its end, and the upstream request
\* ends with a response or with an error.
BodyCompletes == \E i \in DOMAIN exchanges : BodyEnd(i)
UpstreamCompletes ==
    \E i \in DOMAIN exchanges : \E reply \in UpstreamReplies : UpstreamDone(i, reply)

RelayFairSpec == RelaySpec /\ WF_vars(BodyCompletes) /\ WF_vars(UpstreamCompletes)

(***************************************************************************)
(* extractOutputText on its own: the envelope is drawn from Envelopes and  *)
(* one step applies the function to it.                                    *)
(***************************************************************************)
Parts ==
    {Null, Part("output_text", Some(" a")), Part("text", Some("b ")),
     Part("text", Absent), Part("refusal", Some("no"))}

Items ==
    {Null}
    \cup {Message(<<part>>) : part \in Parts}
    \cup {Message(<<Part("output_text", Some(" a")), Part("text", Some("b "))>>),
          [type |-> "message", content |-> Absent, text |-> Some("m")],
          [type |-> "output_text", content |-> Absent, text |-> Some("top")],
          [type |-> "output_text", content |-> Absent, text |-> Some("")],
          [type |-> "reasoning", content |-> << <<Part("text", Some("r"))>> >>,
           text |-> Some("think")]}

ItemLists == UNION {[1..n -> Items] : n \in 0..MaxItems}

Envelopes ==
    {Null}
    \cup {[output_text |-> flat, output |-> <<>>] : flat \in {Absent, Some(""), Some(" flat ")}}
    \cup {[output_text |-> flat, output |-> <<items>>] :
            flat \in {Absent, Some(""), Some(" flat ")}, items \in ItemLists}

ExtractInit ==
    /\ AppInit
    /\ env = [OPEN_AI_KEY |-> Some("sk-test"), OPENAI_API_KEY |-> Absent]
    /\ exchanges = <<>>
    /\ input \in {[fn |-> "extractOutputText", arg |-> response] : response \in Envelopes}
    /\ output = Pending

Extract ==
    /\ input.fn = "extractOutputText"
    /\ output = Pending
    /\ output' = [value |-> extractOutputText(input.arg)]
    /\ UNCHANGED <<input, appVars, relayVars>>

ExtractSpec == ExtractInit /\ [][Extract]_vars

(***************************************************************************)
(* AdviceParser: the adviceItems memo of lines 294-312, applied to an      *)
(* advice text and then to the text rebuilt from its own items.            *)
(***************************************************************************)
\* The position of the first c in s, 0 if there is none.
FirstIndex(s, c) ==
    IF \E i \in 1..Len(s) : CharAt(s, i) = c
    THEN CHOOSE i \in 1..Len(s) :
            /\ CharAt(s, i) = c
            /\ \A j \in 1..(i - 1) : CharAt(s, j) # c
    ELSE 0

\* advice.split("\n")
RECURSIVE SplitLines(_)
SplitLines(text) ==
    LET nl == FirstIndex(text, "\n")
    IN  IF nl = 0 THEN <<text>>
        ELSE <<SubSeq(text, 1, nl - 1)>> \o SplitLines(SubSeq(text, nl + 1, Len(text)))

\* line.replace(/^[-*]\s*/, ""): one leading - or * and the white space, if
\* any, that follows it.
StripBullet(line) ==
    IF Len(line) > 0 /\ CharAt(line, 1) \in {"-", "*"}
    THEN TrimLeft(SubSeq(line, 2, Len(line)))
    ELSE line

\* The capture keeping the white space \s* has consumed.
Captured_KeepsSpace(rest) == rest

\* What \s*(.+)$ captures from a non-empty rest: the rest without its leading
\* white space, or its last character when it is all white space.
Captured(rest) ==
    IF TrimLeft(rest) # "" THEN TrimLeft(rest) ELSE SubSeq(rest, Len(rest), Len(rest))

NoMatch == [matched |-> FALSE, label |-> "", text |-> ""]

\* line.match(/^\*\*(.+?)\*\*:\s*(.+)$/): the label is the shortest non-empty
\* text after the opening ** that is followed by **: and a non-empty rest.
boldMatch(line) ==
    LET ends == {j \in 3..(Len(line) - 4) : SubSeq(line, j + 1, j + 3) = "**:"}
    IN  IF Len(line) >= 2 /\ SubSeq(line, 1, 2) = "**" /\ ends # {}
        THEN LET j == CHOOSE e \in ends : \A o \in ends : e <= o
             IN  [matched |-> TRUE, label |-> SubSeq(line, 3, j),
                  text |-> Captured(SubSeq(line, j + 4, Len(line)))]
        ELSE NoMatch

\* line.match(/^([^:]+):\s*(.+)$/): the label is the non-empty text before the
\* first colon, which a non-empty rest follows.
colonMatch(line) ==
    LET colon == FirstIndex(line, ":")
    IN  IF colon >= 2 /\ colon < Len(line)
        THEN [matched |-> TRUE, label |-> SubSeq(line, 1, colon - 1),
              text |-> Captured(SubSeq(line, colon + 1, Len(line)))]
        ELSE NoMatch

\* The last map of the chain: lines 301-311.
ParseLine(line) ==
    IF boldMatch(line).matched
    THEN [label |-> boldMatch(line).label, text |-> boldMatch(line).text]
    ELSE IF colonMatch(line).matched
    THEN [label |-> colonMatch(line).label, text |-> colonMatch(line).text]
    ELSE [label |-> "", text |-> line]

\* .map(trim).filter(Boolean).map(strip bullet).map(parse): lines 297-311.
RECURSIVE ParseLines(_)
ParseLines(lines) ==
    IF lines = <<>> THEN <<>>
    ELSE LET line == Trim(Head(lines))
         IN  IF line = "" THEN ParseLines(Tail(lines))
             ELSE <<ParseLine(StripBullet(line))>> \o ParseLines(Tail(lines))

adviceItems(text) == IF text = "" THEN <<>> ELSE ParseLines(SplitLines(text))

\* label + ": " + text per item, joined by newlines.
RECURSIVE Rebuild(_)
Rebuild(items) ==
    IF items = <<>> THEN ""
    ELSE Head(items).label \o ": " \o Head(items).text
         \o (IF Tail(items) = <<>> THEN "" ELSE "\n" \o Rebuild(Tail(items)))

\* Advice texts: every line is "**Label**: text" or "Label: text", with or
\* without a bullet, as the relay's instructions ask the provider to write.
AdviceLines ==
    [bullet : {"", "- ", "* "}, form : {"bold", "bare"},
     label : {"Base Layer", "Accessories", "Fit: outer"},
     text : {"thermal shirt", "wool hat"}]

LineText(l) ==
    l.bullet \o (IF l.form = "bold" THEN "**" \o l.label \o "**" ELSE l.label)
    \o ": " \o l.text

RECURSIVE JoinLines(_)
JoinLines(lines) ==
    IF lines = <<>> THEN ""
    ELSE LineText(Head(lines))
         \o (IF Tail(lines) = <<>> THEN "" ELSE "\n" \o JoinLines(Tail(lines)))

AdviceInputs ==
    {[fn |-> "adviceItems", lines |-> lines, arg |-> JoinLines(lines)] :
        lines \in UNION {[1..n -> AdviceLines] : n \in 1..MaxLines}}

ParserInit ==
    /\ AppInit
    /\ env = [OPEN_AI_KEY |-> Some("sk-test"), OPENAI_API_KEY |-> Absent]
    /\ exchanges = <<>>
    /\ input \in AdviceInputs
    /\ output = Pending

Parse ==
    /\ input.fn = "adviceItems"
    /\ output = Pending
    /\ output' = [value |-> adviceItems(input.arg)]
    /\ UNCHANGED <<input, appVars, relayVars>>

\* The items are written back as text and that text is parsed.
Reparse ==
    /\ input.fn = "adviceItems"
    /\ DOMAIN output = {"value"}
    /\ output' = [value |-> output.value, again |-> adviceItems(Rebuild(output.value))]
    /\ UNCHANGED <<input, appVars, relayVars>>

ParserNext == Parse \/ Reparse

ParserSpec == ParserInit /\ [][ParserNext]_vars

(***************************************************************************)
(* toCardinal on its own: applied to a whole number of degrees and to the  *)
(* same direction some full turns away.                                    *)
(***************************************************************************)
CardinalInputs ==
    {[fn |-> "toCardinal", d |-> d, k |-> k] :
        d \in (-MaxDegree)..MaxDegree, k \in (-MaxTurns)..MaxTurns}

CardinalInit ==
    /\ AppInit
    /\ env = [OPEN_AI_KEY |-> Some("sk-test"), OPENAI_API_KEY |-> Absent]
    /\ exchanges = <<>>
    /\ input \in CardinalInputs
    /\ output = Pending

Cardinal ==
    /\ input.fn = "toCardinal"
    /\ output = Pending
    /\ output' = [value |-> toCardinal(Num(input.d * Scale)),
                  wrapped |-> toCardinal(Num((input.d + 360 * input.k) * Scale))]
    /\ UNCHANGED <<input, appVars, relayVars>>

CardinalSpec == CardinalInit /\ [][Cardinal]_vars

(***************************************************************************)
(* The weather-code summary on its own: the lookup of lines 131 and 291    *)
(* applied to a code.                                                      *)
(***************************************************************************)
SummaryInputs == {[fn |-> "summaryFor", code |-> code] : code \in 0..MaxCode}

SummaryInit ==
    /\ AppInit
    /\ env = [OPEN_AI_KEY |-> Some("sk-test"), OPENAI_API_KEY |-> Absent]
    /\ exchanges = <<>>
    /\ input \in SummaryInputs
    /\ output = Pending

Summarise ==
    /\ input.fn = "summaryFor"
    /\ output = Pending
    /\ output' = [value |-> summaryFor(input.code)]
    /\ UNCHANGED <<input, appVars, relayVars>>

SummarySpec == SummaryInit /\ [][Summarise]_vars

(***************************************************************************)
(* Properties.                                                             *)
(***************************************************************************)
NewForecastReqs == forecastReqs' \ forecastReqs
NewAdviceReqs == adviceReqs' \ adviceReqs
NewGeocodeReqs == geocodeReqs' \ geocodeReqs
NewGeoLookups == geoLookups' \ geoLookups
NothingInFlight ==
    forecastReqs = {} /\ adviceReqs = {} /\ geocodeReqs = {} /\ geoLookups = {}
ForecastOk(resp) == resp.kind = "response" /\ resp.ok /\ resp.json.current # Null

\* C1: whenever the advice text is non-empty, it is the answer to the advice
\* request of the most recently dispatched fetchWeather.
C1_AdviceOfLatestFetch == advice # "" => adviceOf = seq

\* C2: a forecast response that arrives after the response to a newer
\* fetchWeather call leaves the stored snapshot, coords and locationName alone.
C2_OlderResponseKept ==
    [][\A r \in forecastReqs :
          (/\ r \notin forecastReqs'
           /\ \E n \in (r.id + 1)..seq : \A q \in forecastReqs : q.id # n)
          => UNCHANGED <<weather, coords, locationName>>]_vars

\* C3: every step that calls fetchWeather (a forecast request is issued) ends
\* with status loading, error "", adviceStatus idle, adviceError "" and
\* advice "", whatever the state it started from.
C3_FetchResets ==
    [][NewForecastReqs # {} =>
          /\ status' = "loading"
          /\ error' = ""
          /\ adviceStatus' = "idle"
          /\ adviceError' = ""
          /\ advice' = ""]_vars

C3_Witness ==
    /\ seq = 2
    /\ weather # Null
    /\ \E r \in forecastReqs : r.id = 2
    /\ status = "loading"
    /\ adviceStatus = "idle"
    /\ advice = ""

\* C4: the response to forecast request r with an OK status and a current
\* payload makes status ready, stores that response's snapshot with r's
\* coordinates and label, and starts exactly one advice request, for that
\* snapshot, with adviceStatus loading.
C4_ForecastSuccess ==
    [][\A r \in forecastReqs : \A resp \in ForecastResponses(r) :
          (Done(ForecastResponse(r, resp)) /\ ForecastOk(resp)) =>
              /\ status' = "ready"
              /\ coords' = [lat |-> r.latitude, lon |-> r.longitude]
              /\ locationName' =
                    (IF r.label # "" THEN r.label
                     ELSE formatNumber(r.latitude, 4) \o ", " \o formatNumber(r.longitude, 4))
              /\ weather'.current = resp.json.current
              /\ weather'.units = resp.json.current_units
              /\ adviceStatus' = "loading"
              /\ Cardinality(NewAdviceReqs) = 1
              /\ \A a \in NewAdviceReqs :
                    /\ a.weather.location = locationName'
                    /\ a.weather.temperature
                          = formatNumber(resp.json.current.temperature_2m, 1)
                    /\ a.weather.temperatureUnit = resp.json.current_units.temperature_2m]_vars

C4_Witness ==
    /\ status = "ready"
    /\ weather # Null
    /\ adviceStatus = "loading"
    /\ \E a \in adviceReqs : a.id = weatherOf /\ a.weather.location = locationName

\* C5: the response to a forecast request that fails (rejected fetch, non-OK
\* status or no current payload) makes status error with a message, starts no
\* advice request, and leaves adviceStatus idle and the advice text empty.
C5_ForecastFailure ==
    [][\A r \in forecastReqs : \A resp \in ForecastResponses(r) :
          (Done(ForecastResponse(r, resp)) /\ ~ForecastOk(resp)) =>
              /\ status' = "error"
              /\ error' # ""
              /\ NewAdviceReqs = {}
              /\ adviceStatus' = "idle"
              /\ advice' = ""]_vars

\* C6: the response to an advice request that fails (rejected fetch or non-OK
\* status) makes adviceStatus error with a message and changes nothing else
\* of the state.
C6_AdviceFailureFrame ==
    [][\A a \in adviceReqs : \A resp \in AdviceResponses :
          (Done(AdviceResponse(a, resp)) /\ (resp.kind = "reject" \/ ~resp.ok)) =>
              /\ adviceStatus' = "error"
              /\ adviceError' # ""
              /\ UNCHANGED <<advice, status, error, weather, coords, locationName, unit,
                             cityQuery, cityStatus, cityError, manualLat, manualLon>>]_vars

C6_Witness == adviceStatus = "error" /\ adviceError # "" /\ advice # "" /\ status = "ready"

\* C7: with nothing in flight no status is loading or locating, and (every
\* request and lookup being answered in the end) each status that is loading
\* or locating eventually is not.
Busy == {"loading", "locating"}
C7_NoStaleLoading ==
    /\ [](NothingInFlight =>
            status \notin Busy /\ adviceStatus \notin Busy /\ cityStatus \notin Busy)
    /\ (status \in Busy) ~> (status \notin Busy)
    /\ (adviceStatus \in Busy) ~> (adviceStatus \notin Busy)
    /\ (cityStatus \in Busy) ~> (cityStatus \notin Busy)

C7_Witness ==
    /\ NothingInFlight
    /\ cityStatus = "ready"
    /\ status = "ready"
    /\ adviceStatus \in {"ready", "error"}

\* C8 as stated: at most one forecast, one advice and one geocoding request
\* is in flight.
C8_OneInFlight ==
    /\ Cardinality(forecastReqs) <= 1
    /\ Cardinality(adviceReqs) <= 1
    /\ Cardinality(geocodeReqs) <= 1

\* C8 as amended: every step starts at most one network request; a city
\* search is started only while cityStatus is not loading and a geolocation
\* lookup only while status is not locating.
C8_OnePerStep ==
    [][/\ Cardinality(NewForecastReqs) + Cardinality(NewAdviceReqs)
            + Cardinality(NewGeocodeReqs) + Cardinality(NewGeoLookups) <= 1
       /\ NewGeocodeReqs # {} => cityStatus # "loading"
       /\ NewGeoLookups # {} => status # "locating"]_vars

C8_Witness == Cardinality(forecastReqs) = 2 /\ Cardinality(geoLookups) = 0

\* C9: a step that flips the unit issues, when coords is set, exactly one
\* forecast request, with the tokens of the new unit and the stored
\* coordinates and label, and none when coords is null; it leaves the stored
\* snapshot as it is.
C9_ToggleRefetches ==
    [][unit' # unit =>
          /\ unit' = (IF unit = "fahrenheit" THEN "celsius" ELSE "fahrenheit")
          /\ weather' = weather
          /\ IF coords # Null
             THEN NewForecastReqs =
                    {[id |-> seq + 1,
                      latitude |-> coords.lat,
                      longitude |-> coords.lon,
                      temperature_unit |-> unit',
                      wind_speed_unit |-> IF unit' = "fahrenheit" THEN "mph" ELSE "kmh",
                      label |-> locationName]}
             ELSE NewForecastReqs = {}]_vars

C9_Witness ==
    /\ unit = "celsius"
    /\ coords # Null
    /\ weather.units.temperature_2m = "°F"
    /\ \E r \in forecastReqs :
          /\ r.temperature_unit = "celsius"
          /\ r.wind_speed_unit = "kmh"
          /\ r.latitude = coords.lat
          /\ r.longitude = coords.lon

\* C10: a manual submit with a latitude or longitude field that is empty or
\* not a number sets status error with the message "Enter a valid latitude
\* and longitude." and issues no request.
NotANumber(text) == text = "" \/ ~IsNum(StringToNumber(text))
C10_InvalidManualSubmit ==
    [][(User(handleManualSubmit) /\ (NotANumber(manualLat) \/ NotANumber(manualLon))) =>
          /\ status' = "error"
          /\ error' = "Enter a valid latitude and longitude."
          /\ NewForecastReqs = {}]_vars

\* C11: when a city search is rejected, answered with a non-OK status or
\* answered with no results, cityStatus becomes error and cityError a
\* non-empty message ("No matching city found." for zero results); the step
\* starts no forecast request and leaves status, error, the snapshot, the
\* coordinates and the advice state as they were.
GeocodeUnsuccessful(resp) ==
    \/ resp.kind = "reject"
    \/ resp.kind = "response" /\ (~resp.ok \/ Len(resp.results) = 0)
C11_CitySearchFailure ==
    [][\A c \in geocodeReqs : \A resp \in GeocodeResponses :
          (Done(GeocodeResponse(c, resp)) /\ GeocodeUnsuccessful(resp)) =>
              /\ cityStatus' = "error"
              /\ cityError' # ""
              /\ (resp.kind = "response" /\ resp.ok) =>
                      cityError' = "No matching city found."
              /\ NewForecastReqs = {}
              /\ UNCHANGED <<status, error, weather, coords, locationName, advice,
                             adviceStatus, adviceError, adviceReqs>>]_vars

C11_Witness ==
    /\ cityStatus = "error"
    /\ cityError = "No matching city found."
    /\ geocodeReqs = {}
    /\ forecastReqs = {}

\* C12: when the relay answers with an OK status and a JSON body whose
\* suggestion is the empty string, the advice flow ends as a successful call
\* with empty content: adviceStatus is ready, adviceError is "" and the
\* stored advice text is "".
C12_EmptySuggestion ==
    [][\A a \in adviceReqs : \A resp \in AdviceResponses :
          (/\ Done(AdviceResponse(a, resp))
           /\ resp.kind = "response"
           /\ resp.ok
           /\ resp.rawText = "{\"suggestion\":\"\"}") =>
              /\ adviceStatus' = "ready"
              /\ adviceError' = ""
              /\ advice' = ""]_vars

(***************************************************************************)
(* The relay.                                                              *)
(***************************************************************************)
HasText(opt) == opt # Absent /\ opt # Some("")
WellFormedResponse(r) ==
    /\ Includes(r.contentType, "application/json")
    /\ \/ r.status = 200 /\ r.body.error = Absent
       \/ r.status \in 400..599 /\ HasText(r.body.error) /\ r.body.suggestion = Absent
AnsweredOnce(x) == Len(x.responses) = 1 /\ WellFormedResponse(x.responses[1])

BodiesWithoutWeather == {"{}", "{\"city\":\"Paris\"}", "null"}
C14_MissingWeather ==
    \A i \in DOMAIN exchanges :
        exchanges[i].data \in BodiesWithoutWeather =>
            /\ exchanges[i].sent = <<>>
            /\ exchanges[i].phase # "calling"
            /\ exchanges[i].phase = "done" =>
                    /\ Len(exchanges[i].responses) = 1
                    /\ exchanges[i].responses[1].status = 400
                    /\ HasText(exchanges[i].responses[1].body.error)

NoCredential == ~HasText(env.OPEN_AI_KEY) /\ ~HasText(env.OPENAI_API_KEY)

\* Answered 400 with no credential configured.
C14_Witness ==
    /\ NoCredential
    /\ \E i \in DOMAIN exchanges :
          /\ exchanges[i].data = "{}"
          /\ exchanges[i].phase = "done"
          /\ exchanges[i].responses[1].status = 400

\* C15: with no API credential in the environment, a request that carries a
\* weather object is answered with status 500 and the body
\* {error: "OPEN_AI_KEY is missing in .env"}, and no request is sent to the
\* upstream provider.
C15_MissingCredential ==
    NoCredential =>
        \A i \in DOMAIN exchanges :
            exchanges[i].data = WeatherBody =>
                /\ exchanges[i].sent = <<>>
                /\ exchanges[i].phase # "calling"
                /\ exchanges[i].phase = "done" =>
                        exchanges[i].responses =
                            <<[status |-> 500,
                               contentType |-> "application/json; charset=utf-8",
                               body |-> [error |-> Some("OPEN_AI_KEY is missing in .env"),
                                         suggestion |-> Absent]]>>

C15_Witness ==
    /\ NoCredential
    /\ \E i \in DOMAIN exchanges :
          /\ exchanges[i].data = WeatherBody
          /\ exchanges[i].phase = "done"
          /\ exchanges[i].responses[1].status = 500

\* C16: the relay answers 200 {suggestion} only when the text extracted
\* from the upstream response is non-empty, and answers 500 with an error
\* body whenever the extraction yields the empty string.  The text each
\* upstream body carries is written out here.
CarriedText(data) ==
    CASE data = "{\"output_text\":\"**Base Layer**: tee\"}" -> "**Base Layer**: tee"
      [] data = MessageReply -> "**Base Layer**: tee"
      [] data \in {BlankReply, "{\"output_text\":\"\"}", "null"} -> ""
Extracted(x) ==
    /\ x.phase = "done"
    /\ x.reply.kind = "end"
    /\ x.reply.statusCode < 400
    /\ x.reply.data \in {FlatReply, MessageReply, BlankReply, EmptyFlatReply, "null"}
C16_EmptyExtraction ==
    \A i \in DOMAIN exchanges :
        LET x == exchanges[i]
        IN  /\ Extracted(x) =>
                IF CarriedText(x.reply.data) = ""
                THEN /\ Len(x.responses) = 1
                     /\ x.responses[1].status = 500
                     /\ HasText(x.responses[1].body.error)
                ELSE /\ Len(x.responses) = 1
                     /\ x.responses[1].status = 200
                     /\ x.responses[1].body.suggestion = Some(CarriedText(x.reply.data))
            /\ \A k \in DOMAIN x.responses :
                    x.responses[k].status = 200 =>
                        /\ HasText(x.responses[k].body.suggestion)
                        /\ Extracted(x)

\* Both outcomes have happened: a blank extraction answered 500 and a
\* non-empty one answered 200.
C16_Witness ==
    /\ Len(exchanges) = 2
    /\ exchanges[1].reply.kind = "end"
    /\ exchanges[1].reply.data = BlankReply
    /\ exchanges[1].responses[1].status = 500
    /\ exchanges[2].reply.kind = "end"
    /\ exchanges[2].reply.data = MessageReply
    /\ exchanges[2].responses[1].status = 200

(***************************************************************************)
(* extractOutputText.                                                      *)
(***************************************************************************)
TextBearing(part) == part # Null /\ part.type \in {"output_text", "text"}
IsMessage(item) == item # Null /\ item.type = "message" /\ item.content # Absent
IsTopLevelText(item) == item # Null /\ item.type = "output_text" /\ item.text # Absent

\* The text of the text-bearing parts of a content list, in list order.
RECURSIVE PartsJoined(_)
PartsJoined(parts) ==
    IF parts = <<>> THEN ""
    ELSE (IF TextBearing(Head(parts)) /\ Head(parts).text # Absent
          THEN Head(parts).text[1] ELSE "")
         \o PartsJoined(Tail(parts))

\* The text of the message items of a list, in list order; with topLevel,
\* also the text of the items whose own type is output_text.
RECURSIVE ItemsJoined(_, _)
ItemsJoined(items, topLevel) ==
    IF items = <<>> THEN ""
    ELSE (IF IsMessage(Head(items)) THEN PartsJoined(Head(items).content[1])
          ELSE IF topLevel /\ IsTopLevelText(Head(items)) THEN Head(items).text[1]
          ELSE "")
         \o ItemsJoined(Tail(items), topLevel)

Extracted17 == input.fn = "extractOutputText" /\ output # Pending /\ input.arg # Null

\* C17: extractOutputText returns the output_text field whenever it is a
\* string; otherwise it returns the concatenation, in list order, of the
\* text of the text-bearing content parts of the message items only.
C17_MessageItemsOnly ==
    Extracted17 =>
        output.value =
            IF input.arg.output_text # Absent THEN input.arg.output_text[1]
            ELSE IF input.arg.output = Absent THEN ""
            ELSE ItemsJoined(input.arg.output[1], FALSE)

\* C17, amended: extractOutputText returns the output_text field whenever it
\* is a string; otherwise it returns, with leading and trailing white space
\* removed, the concatenation in list order of the text of the text-bearing
\* content parts of the message items and of the text of the items whose
\* own type is output_text; "" when output is not a list.
C17_MessageAndTextItems ==
    Extracted17 =>
        output.value =
            IF input.arg.output_text # Absent THEN input.arg.output_text[1]
            ELSE IF input.arg.output = Absent THEN ""
            ELSE Trim(ItemsJoined(input.arg.output[1], TRUE))

\* A message item and an item of type output_text have both contributed,
\* and the white space around the result is gone.
C17_Witness ==
    /\ input.fn = "extractOutputText"
    /\ input.arg # Null
    /\ input.arg.output_text = Absent
    /\ input.arg.output =
          << <<Message(<<Part("output_text", Some(" a"))>>),
               [type |-> "output_text", content |-> Absent, text |-> Some("top")]>> >>
    /\ output = [value |-> "atop"]

(***************************************************************************)
(* AdviceParser.                                                           *)
(***************************************************************************)
Parsed == input.fn = "adviceItems" /\ output # Pending

\* C18: every line of the form "**Label**: text", with or without a leading
\* "- " or "* " bullet, becomes the item {label: Label, text: text}; so an
\* advice text made of such lines parses to their labels and texts, in
\* order.
C18_BoldLines ==
    (Parsed /\ \A i \in DOMAIN input.lines : input.lines[i].form = "bold") =>
        /\ Len(output.value) = Len(input.lines)
        /\ \A i \in DOMAIN input.lines :
              output.value[i] =
                  [label |-> input.lines[i].label, text |-> input.lines[i].text]

\* C19: when every line matched the emphasis pattern or the bare
\* "Label: text" pattern, parsing the text rebuilt from the items (label,
\* ": ", text per line, joined by newlines) yields the same items again.
C19_ReparseSame ==
    (/\ input.fn = "adviceItems"
     /\ "again" \in DOMAIN output
     /\ \A i \in DOMAIN output.value : output.value[i].label # "") =>
        output.again = output.value

\* C19, amended: when every item has a label that is not empty, does not
\* begin with "-", "*" or white space and contains no colon, parsing the
\* text rebuilt from the items yields the same items again.
CleanLabel(label) ==
    /\ label # ""
    /\ ~(CharAt(label, 1) \in {"-", "*"})
    /\ ~IsSpace(CharAt(label, 1))
    /\ FirstIndex(label, ":") = 0
C19_ReparseSameCleanLabels ==
    (/\ input.fn = "adviceItems"
     /\ "again" \in DOMAIN output
     /\ \A i \in DOMAIN output.value : CleanLabel(output.value[i].label)) =>
        output.again = output.value

C19_Witness ==
    /\ input.fn = "adviceItems"
    /\ input.arg = "- **Base Layer**: thermal shirt\n* Accessories: wool hat"
    /\ "again" \in DOMAIN output
    /\ output.value = <<[label |-> "Base Layer", text |-> "thermal shirt"],
                        [label |-> "Accessories", text |-> "wool hat"]>>
    /\ output.again = output.value

(***************************************************************************)
(* UnitFormatter.                                                          *)
(***************************************************************************)
\* C20: for every whole number of degrees d and every integer k,
\* toCardinal(d) equals toCardinal(d + 360 k) and is one of the eight compass
\* labels; toCardinal(0) is "N" and toCardinal(90) is "E".
C20_CardinalWraps ==
    (input.fn = "toCardinal" /\ output # Pending) =>
        /\ output.value = output.wrapped
        /\ output.value \in {"N", "NE", "E", "SE", "S", "SW", "W", "NW"}
        /\ input.d = 0 => output.value = "N"
        /\ input.d = 90 => output.value = "E"

(***************************************************************************)
(* The weather-code summary.                                               *)
(***************************************************************************)
Summarised == input.fn = "summaryFor" /\ output # Pending

\* The summaries the lookup is to return, code by code.
MappedSummaries ==
    {<<0, "Clear sky">>, <<1, "Mainly clear">>, <<2, "Partly cloudy">>,
     <<3, "Overcast">>, <<45, "Fog">>, <<48, "Depositing rime fog">>,
     <<51, "Light drizzle">>, <<53, "Moderate drizzle">>, <<55, "Dense drizzle">>,
     <<56, "Light freezing drizzle">>, <<57, "Dense freezing drizzle">>,
     <<61, "Slight rain">>, <<63, "Moderate rain">>, <<65, "Heavy rain">>,
     <<66, "Light freezing rain">>, <<67, "Heavy freezing rain">>,
     <<71, "Slight snowfall">>, <<73, "Moderate snowfall">>, <<75, "Heavy snowfall">>,
     <<77, "Snow grains">>, <<80, "Slight rain showers">>,
     <<81, "Moderate rain showers">>, <<82, "Violent rain showers">>,
     <<85, "Slight snow showers">>, <<86, "Heavy snow showers">>,
     <<95, "Thunderstorm">>, <<96, "Thunderstorm with light hail">>,
     <<99, "Thunderstorm with heavy hail">>}
MappedCodes == {pair[1] : pair \in MappedSummaries}

\* C21: the lookup returns the mapped string for every code of the fixed
\* table, which has 33 entries, and "Variable conditions" for any code
\* outside it, such as 2 or 999.
C21_Table33 ==
    Summarised =>
        /\ Cardinality(DOMAIN WEATHER_CODE_MAP) = 33
        /\ input.code \in {2, 999} => output.value = "Variable conditions"
        /\ \A pair \in MappedSummaries :
              (input.code = pair[1] /\ pair[1] # 2) => output.value = pair[2]
        /\ input.code \notin MappedCodes => output.value = "Variable conditions"

\* C21, amended: the lookup returns the mapped string for every code of the
\* fixed table, which has 28 entries and holds 2 ("Partly cloudy"), and
\* "Variable conditions" for any code outside it, such as 4 or 999.
C21_Table28 ==
    Summarised =>
        /\ Cardinality(DOMAIN WEATHER_CODE_MAP) = 28
        /\ DOMAIN WEATHER_CODE_MAP = MappedCodes
        /\ input.code \in {4, 999} => output.value = "Variable conditions"
        /\ \A pair \in MappedSummaries :
              input.code = pair[1] => output.value = pair[2]
        /\ input.code \notin MappedCodes => output.value = "Variable conditions"

\* The lookup has fallen back for a code outside the table.
C21_Witness ==
    /\ input.fn = "summaryFor"
    /\ input.code = 999
    /\ output = [value |-> "Variable conditions"]

(***************************************************************************)
(* The page, across its three flows.                                       *)
(***************************************************************************)
\* C22: in each of the three flows a non-empty error text is held only
\* while that flow's status is error.
C22_ErrorTextOnlyInError ==
    /\ error # "" => status = "error"
    /\ adviceError # "" => adviceStatus = "error"
    /\ cityError # "" => cityStatus = "error"

\* C23: whenever no forecast request, geolocation lookup or city search is
\* in flight and the weather status is ready, the stored snapshot carries
\* the units of the selected unit system: it was requested with the tokens
\* of the current unit.
C23_SnapshotInSelectedUnit ==
    (/\ forecastReqs = {}
     /\ geoLookups = {}
     /\ geocodeReqs = {}
     /\ status = "ready"
     /\ weather # Null) =>
        /\ weather.units.temperature_2m = (IF unit = "fahrenheit" THEN "°F" ELSE "°C")
        /\ weather.units.wind_speed_10m = (IF unit = "fahrenheit" THEN "mp/h" ELSE "km/h")
====
